---- MODULE Spec2Model ----
(***************************************************************************)
(* The Telegram image bot of Image_king_bot.py as a state machine: the     *)
(* ConversationHandler's per-user conversation state, the per-user         *)
(* context.user_data dictionary, the generation call a suspended handler   *)
(* is waiting for, and the last message the bot sent.                      *)
(*                                                                         *)
(* Text is a sequence of one-character strings, so that strip(), split()   *)
(* and int() are computed on characters as the code computes them.         *)
(***************************************************************************)
EXTENDS Integers, Sequences, FiniteSets, TLC

\* ------------------------------------------------------------------ bounds

\* Images the provider can produce in one run; each success yields fresh bytes.
MaxImages == 2
\* An edit is offered while the stored prompt is at most this long.
MaxPromptLen == 10
\* Saves are offered in Spec while the gallery is shorter than this.
MaxSpecGallery == 1

\* ------------------------------------------------------- program constants

\* ASK_NAME, ..., REGEN_PROMPT = range(8)
ASK_NAME == 0
ASK_PHONE == 1
VERIFY_OTP == 2
DIMENSION_CHOICE == 3
AWAIT_PROMPT == 4
AFTER_IMAGE == 5
EDIT_PROMPT == 6
REGEN_PROMPT == 7
\* ConversationHandler.END: the user has no conversation.
END == -1

ConvStates == {ASK_NAME, ASK_PHONE, VERIFY_OTP, DIMENSION_CHOICE, AWAIT_PROMPT,
               AFTER_IMAGE, EDIT_PROMPT, REGEN_PROMPT}

\* random.randint(1000, 9999)
OtpLo == 1000
OtpHi == 9999
\* gallery[-20:]
GalleryCap == 20
\* gallery[-5:]
GalleryShow == 5

ALLOWED_DIMS ==
  << <<"1", "0", "2", "4", "x", "1", "0", "2", "4">>,
     <<"1", "1", "5", "2", "x", "8", "9", "6">>,
     <<"1", "2", "1", "6", "x", "8", "3", "2">>,
     <<"1", "3", "4", "4", "x", "7", "6", "8">>,
     <<"1", "5", "3", "6", "x", "6", "4", "0">>,
     <<"6", "4", "0", "x", "1", "5", "3", "6">>,
     <<"7", "6", "8", "x", "1", "3", "4", "4">>,
     <<"8", "3", "2", "x", "1", "2", "1", "6">>,
     <<"8", "9", "6", "x", "1", "1", "5", "2">> >>

\* ------------------------------------------------------------ str helpers

Whitespace == {" ", "\t", "\n"}
Digits == <<"0", "1", "2", "3", "4", "5", "6", "7", "8", "9">>
DigitChars == {Digits[i] : i \in 1..10}

RECURSIVE lstrip(_)
lstrip(s) == IF Len(s) > 0 /\ Head(s) \in Whitespace THEN lstrip(Tail(s)) ELSE s

RECURSIVE rstrip(_)
rstrip(s) ==
  IF Len(s) > 0 /\ s[Len(s)] \in Whitespace
    THEN rstrip(SubSeq(s, 1, Len(s) - 1))
    ELSE s

\* str.strip()
strip(s) == rstrip(lstrip(s))

\* str.startswith(prefix)
startswith(s, prefix) ==
  Len(s) >= Len(prefix) /\ SubSeq(s, 1, Len(prefix)) = prefix

\* Index of the first occurrence of character c in s, 0 when there is none.
find(s, c) ==
  IF \E i \in 1..Len(s) : s[i] = c
    THEN CHOOSE i \in 1..Len(s) : s[i] = c /\ \A j \in 1..(i - 1) : s[j] # c
    ELSE 0

\* str.split(c): every part between occurrences of c.
RECURSIVE split(_, _)
split(s, c) ==
  IF find(s, c) = 0
    THEN <<s>>
    ELSE <<SubSeq(s, 1, find(s, c) - 1)>> \o split(SubSeq(s, find(s, c) + 1, Len(s)), c)

\* data.split(":", 1)[1]: what follows the first colon.
after_colon(data) == SubSeq(data, find(data, ":") + 1, Len(data))

\* str(n) for n >= 0
RECURSIVE str(_)
str(n) == IF n < 10 THEN <<Digits[n + 1]>> ELSE str(n \div 10) \o <<Digits[(n % 10) + 1]>>

DigitValue(c) == (CHOOSE i \in 1..10 : Digits[i] = c) - 1

RECURSIVE digits_value(_)
digits_value(s) ==
  IF Len(s) = 0 THEN 0
  ELSE 10 * digits_value(SubSeq(s, 1, Len(s) - 1)) + DigitValue(s[Len(s)])

\* int(s) accepts surrounding whitespace, one sign and decimal digits.
int_body(s) == IF Len(s) > 0 /\ Head(s) \in {"+", "-"} THEN Tail(s) ELSE s
int_ok(s) ==
  LET b == int_body(strip(s))
  IN  Len(b) > 0 /\ \A i \in 1..Len(b) : b[i] \in DigitChars
int(s) ==
  LET t == strip(s)
      v == digits_value(int_body(t))
  IN  IF Len(t) > 0 /\ Head(t) = "-" THEN 0 - v ELSE v

\* width, height = map(int, dim.split("x")): raises unless there are exactly
\* two parts and int() accepts both.
parse_dim_ok(dim) ==
  LET parts == split(dim, "x")
  IN  Len(parts) = 2 /\ int_ok(parts[1]) /\ int_ok(parts[2])
\* Variant: height, width = ...
parse_dim_swapped(dim) ==
  LET parts == split(dim, "x")
  IN  [width |-> int(parts[2]), height |-> int(parts[1])]
parse_dim(dim) ==
  LET parts == split(dim, "x")
  IN  [width |-> int(parts[1]), height |-> int(parts[2])]

\* ------------------------------------------------ context.user_data (dict)

EmptyDict == [k \in {} |-> TRUE]
Has(d, k) == k \in DOMAIN d
Put(d, k, v) == [x \in (DOMAIN d) \cup {k} |-> IF x = k THEN v ELSE d[x]]

\* Variant: clear() in place of pop(k, None).
Pop_clear(d, k) == EmptyDict

Pop(d, k) == [x \in (DOMAIN d) \ {k} |-> d[x]]

\* Variant: 'is not None' in place of truthiness, an empty string passes.
not_none(d, k) == Has(d, k)

\* Python truthiness of d.get(k) for a str value: present and not empty.
Truthy(d, k) == Has(d, k) /\ Len(d[k]) > 0


\* ------------------------------------------------------------------ state

Users == {"u1", "u2"}

VARIABLES
  conv,       \* ConversationHandler: user -> conversation state, END when none
  user_data,  \* context.user_data: user -> dict
  pending,    \* the generation call a suspended handler awaits: {} or {call}
  served,     \* images the provider has produced so far
  reply       \* the last message the bot sent

vars == <<conv, user_data, pending, served, reply>>

Say(u, m) == [to |-> u, msg |-> m, photos |-> <<>>]
Show(u, m, imgs) == [to |-> u, msg |-> m, photos |-> imgs]

\* Variant: concurrent_updates(True), updates dispatched without waiting.
Idle_concurrent == TRUE

\* Application.run_polling() without concurrent_updates: the next update is
\* dispatched only when the handler of the previous one has returned.
Idle == pending = {}

\* ConversationHandler.states: the handlers of state s see u's update.
InState(u, s) == Idle /\ conv[u] = s

Goto(u, s) == conv' = [conv EXCEPT ![u] = s]

\* Variant: one module-level dict shared by all users in place of
\* context.user_data.
Store_shared(u, d) == user_data' = [x \in Users |-> d]

Store(u, d) == user_data' = [user_data EXCEPT ![u] = d]

Init ==
  /\ conv = [u \in Users |-> END]
  /\ user_data = [u \in Users |-> EmptyDict]
  /\ pending = {}
  /\ served = 0
  /\ reply = Say("", "")

\* --------------------------------------------------------------- provider

Responses == {"exception", "status_not_200", "bad_json", "no_artifacts", "ok"}

\* Variant: the status code is not checked.
generate_image_sync_any_status(resp, img) ==
  IF resp \in {"ok", "status_not_200"}
    THEN [success |-> TRUE, image_bytes |-> img]
    ELSE [success |-> FALSE]

\* Variant: a 200 response without artifacts taken as a success.
generate_image_sync_lenient(resp, img) ==
  IF resp \in {"ok", "no_artifacts"}
    THEN [success |-> TRUE, image_bytes |-> img]
    ELSE [success |-> FALSE]

\* generate_image_sync's result for the provider's response; img is the
\* decoded base64 artifact. (False, None) has no image_bytes.
generate_image_sync(resp, img) ==
  IF resp = "ok"
    THEN [success |-> TRUE, image_bytes |-> img]
    ELSE [success |-> FALSE]

\* if not success or image_bytes is None
Failed(r) == ~r.success \/ ~Has(r, "image_bytes")

\* Variant: the result of the send is not looked at.
safe_send_unchecked(photo_ok, doc_ok) == TRUE

\* Variant: no fallback to send_document.
safe_send_photo_only(photo_ok, doc_ok) == photo_ok

\* send_photo, and on its failure send_document.
safe_send_image_by_bot(photo_ok, doc_ok) == photo_ok \/ doc_ok

\* await generate_image_async(prompt, width, height): the handler suspends.
Await(u, site, prompt, dim) ==
  pending' = {[user |-> u, site |-> site, prompt |-> prompt,
               width |-> parse_dim(dim).width, height |-> parse_dim(dim).height]}

Awaited(u, site) == \E c \in pending : c.user = u /\ c.site = site

\* The provider answers a call: fresh bytes on success, at most MaxImages.
Answer(resp) ==
  /\ resp \in Responses
  /\ resp = "ok" => served < MaxImages
  /\ served' = IF resp = "ok" THEN served + 1 ELSE served

\* --------------------------------------------------------------- handlers

\* Variant: allow_reentry=False, /start only outside a conversation.
cmd_start_no_reentry(u) ==
  /\ Idle
  /\ conv[u] = END
  /\ Store(u, EmptyDict)
  /\ reply' = Say(u, "ask_name")
  /\ Goto(u, ASK_NAME)
  /\ UNCHANGED <<pending, served>>

cmd_start(u) ==
  /\ Idle
  /\ Store(u, EmptyDict)
  /\ reply' = Say(u, "ask_name")
  /\ Goto(u, ASK_NAME)
  /\ UNCHANGED <<pending, served>>

ask_phone(u, text) ==
  /\ InState(u, ASK_NAME)
  /\ Store(u, Put(user_data[u], "name", strip(text)))
  /\ reply' = Say(u, "ask_phone")
  /\ Goto(u, ASK_PHONE)
  /\ UNCHANGED <<pending, served>>

generate_otp(n) == str(n)

send_otp(u, text, n) ==
  /\ InState(u, ASK_PHONE)
  /\ n \in OtpLo..OtpHi
  /\ Store(u, Put(Put(user_data[u], "phone", strip(text)), "otp", generate_otp(n)))
  /\ reply' = Say(u, "otp_shown")
  /\ Goto(u, VERIFY_OTP)
  /\ UNCHANGED <<pending, served>>

\* Variant: a wrong entry consumes the OTP.
verify_otp_single_try(u, text) ==
  /\ InState(u, VERIFY_OTP)
  /\ IF Truthy(user_data[u], "otp") /\ strip(text) = user_data[u]["otp"]
       THEN /\ Store(u, Put(user_data[u], "verified", TRUE))
            /\ reply' = Say(u, "verified_choose_dimension")
            /\ Goto(u, DIMENSION_CHOICE)
       ELSE /\ Store(u, Pop(user_data[u], "otp"))
            /\ reply' = Say(u, "wrong_otp")
            /\ Goto(u, VERIFY_OTP)
  /\ UNCHANGED <<pending, served>>

verify_otp_handler(u, text) ==
  /\ InState(u, VERIFY_OTP)
  /\ LET entered == strip(text)
     IN  IF Truthy(user_data[u], "otp") /\ entered = user_data[u]["otp"]
           THEN /\ Store(u, Put(user_data[u], "verified", TRUE))
                /\ reply' = Say(u, "verified_choose_dimension")
                /\ Goto(u, DIMENSION_CHOICE)
           ELSE /\ reply' = Say(u, "wrong_otp")
                /\ Goto(u, VERIFY_OTP)
                /\ UNCHANGED user_data
  /\ UNCHANGED <<pending, served>>

\* Variant: the selection moves on without storing the dimension.
dimension_chosen_no_store(u, data) ==
  /\ InState(u, DIMENSION_CHOICE)
  /\ startswith(data, <<"d", "i", "m", ":">>)
  /\ reply' = Say(u, "dimension_set")
  /\ Goto(u, AWAIT_PROMPT)
  /\ UNCHANGED <<user_data, pending, served>>

\* CallbackQueryHandler(dimension_chosen, pattern=r"^dim:")
dimension_chosen(u, data) ==
  /\ InState(u, DIMENSION_CHOICE)
  /\ startswith(data, <<"d", "i", "m", ":">>)
  /\ Store(u, Put(user_data[u], "dimension", after_colon(data)))
  /\ reply' = Say(u, "dimension_set")
  /\ Goto(u, AWAIT_PROMPT)
  /\ UNCHANGED <<pending, served>>

receive_prompt_and_generate(u, text) ==
  /\ InState(u, AWAIT_PROMPT)
  /\ LET prompt == strip(text)
         d == Put(user_data[u], "last_prompt", prompt)
     IN  /\ Store(u, d)
         /\ IF ~Truthy(d, "dimension")
              THEN /\ reply' = Say(u, "dimension_not_set")
                   /\ Goto(u, END)
                   /\ UNCHANGED pending
              ELSE IF ~parse_dim_ok(d["dimension"])
                \* ValueError: the handler raises, the state is not updated
                THEN UNCHANGED <<reply, conv, pending>>
                ELSE /\ reply' = Say(u, "generating")
                     /\ Await(u, "prompt", prompt, d["dimension"])
                     /\ UNCHANGED conv
  /\ UNCHANGED served

receive_prompt_resume(u, resp, photo_ok, doc_ok) ==
  /\ Awaited(u, "prompt")
  /\ Answer(resp)
  /\ pending' = {}
  /\ LET r == generate_image_sync(resp, served + 1)
     IN  IF Failed(r)
           THEN /\ reply' = Say(u, "generate_failed")
                /\ Goto(u, AWAIT_PROMPT)
                /\ UNCHANGED user_data
           ELSE /\ Store(u, Put(user_data[u], "last_image", r.image_bytes))
                /\ IF ~safe_send_image_by_bot(photo_ok, doc_ok)
                     THEN /\ reply' = Say(u, "send_failed")
                          /\ Goto(u, AWAIT_PROMPT)
                     ELSE /\ reply' = Say(u, "choose_action")
                          /\ Goto(u, AFTER_IMAGE)

\* seq[-n:]
last_n(seq, n) == SubSeq(seq, IF Len(seq) > n THEN Len(seq) - n + 1 ELSE 1, Len(seq))

\* Variant: no truncation.
keep_all(gallery) == gallery

\* Variant: gallery[:20], which drops the newest entry.
keep_first_20(gallery) ==
  SubSeq(gallery, 1, IF Len(gallery) > GalleryCap THEN GalleryCap ELSE Len(gallery))

\* gallery[-20:]
keep_last_20(gallery) == last_n(gallery, GalleryCap)

\* CallbackQueryHandler(after_image_action, pattern=r"^act:")
after_image_action(u, data) ==
  /\ InState(u, AFTER_IMAGE)
  /\ startswith(data, <<"a", "c", "t", ":">>)
  /\ LET action == after_colon(data)
         d == user_data[u]
     IN  CASE action = <<"e", "d", "i", "t">> ->
                /\ reply' = Say(u, "ask_edit")
                /\ Goto(u, EDIT_PROMPT)
                /\ UNCHANGED user_data
           [] action = <<"s", "a", "v", "e">> ->
                IF ~Has(d, "last_image")
                  THEN /\ reply' = Say(u, "no_image_to_save")
                       /\ Goto(u, AFTER_IMAGE)
                       /\ UNCHANGED user_data
                  ELSE LET gallery == (IF Has(d, "gallery") THEN d["gallery"] ELSE <<>>)
                                        \o <<d["last_image"]>>
                       IN  /\ Store(u, Put(d, "gallery", keep_last_20(gallery)))
                           /\ reply' = Say(u, "saved")
                           /\ Goto(u, AFTER_IMAGE)
           [] action = <<"n", "o", "s", "a", "v", "e">> ->
                /\ Store(u, Pop(d, "last_image"))
                /\ reply' = Say(u, "not_saved")
                /\ Goto(u, AFTER_IMAGE)
           [] action = <<"r", "e", "g", "e", "n">> ->
                /\ reply' = Say(u, "ask_new_prompt")
                /\ Goto(u, REGEN_PROMPT)
                /\ UNCHANGED user_data
           [] OTHER ->
                /\ reply' = Say(u, "unknown_action")
                /\ Goto(u, AFTER_IMAGE)
                /\ UNCHANGED user_data
  /\ UNCHANGED <<pending, served>>

\* Variant: the instruction put in front of the prompt.
combined_swapped(orig_prompt, edit_instructions) ==
  edit_instructions \o <<".", " ", "E", "d", "i", "t", ":", " ">> \o orig_prompt

\* f"{orig_prompt}. Edit: {edit_instructions}"
combined(orig_prompt, edit_instructions) ==
  orig_prompt \o <<".", " ", "E", "d", "i", "t", ":", " ">> \o edit_instructions

\* Variant: last_prompt left as it was when the call is made, the composite
\* only sent to the provider.
edit_prompt_handler_no_store(u, text) ==
  /\ InState(u, EDIT_PROMPT)
  /\ LET edit_instructions == strip(text)
         d0 == user_data[u]
     IN  IF ~Truthy(d0, "last_prompt")
           THEN /\ reply' = Say(u, "prompt_missing")
                /\ Goto(u, AWAIT_PROMPT)
                /\ UNCHANGED <<user_data, pending>>
           ELSE LET combined_prompt == combined(d0["last_prompt"], edit_instructions)
                IN  /\ UNCHANGED user_data
                    /\ IF ~Truthy(d0, "dimension")
                         THEN /\ reply' = Say(u, "dimension_missing")
                              /\ Goto(u, END)
                              /\ UNCHANGED pending
                         ELSE IF ~parse_dim_ok(d0["dimension"])
                           THEN UNCHANGED <<reply, conv, pending>>
                           ELSE /\ reply' = Say(u, "applying_edits")
                                /\ Await(u, "edit", combined_prompt, d0["dimension"])
                                /\ UNCHANGED conv
  /\ UNCHANGED served

edit_prompt_handler(u, text) ==
  /\ InState(u, EDIT_PROMPT)
  /\ LET edit_instructions == strip(text)
         d0 == user_data[u]
     IN  IF ~Truthy(d0, "last_prompt")
           THEN /\ reply' = Say(u, "prompt_missing")
                /\ Goto(u, AWAIT_PROMPT)
                /\ UNCHANGED <<user_data, pending>>
           ELSE LET combined_prompt == combined(d0["last_prompt"], edit_instructions)
                    d == Put(d0, "last_prompt", combined_prompt)
                IN  /\ Store(u, d)
                    /\ IF ~Truthy(d, "dimension")
                         THEN /\ reply' = Say(u, "dimension_missing")
                              /\ Goto(u, END)
                              /\ UNCHANGED pending
                         ELSE IF ~parse_dim_ok(d["dimension"])
                           THEN UNCHANGED <<reply, conv, pending>>
                           ELSE /\ reply' = Say(u, "applying_edits")
                                /\ Await(u, "edit", combined_prompt, d["dimension"])
                                /\ UNCHANGED conv
  /\ UNCHANGED served

edit_prompt_resume(u, resp, photo_ok, doc_ok) ==
  /\ Awaited(u, "edit")
  /\ Answer(resp)
  /\ pending' = {}
  /\ LET r == generate_image_sync(resp, served + 1)
     IN  IF Failed(r)
           THEN /\ reply' = Say(u, "edit_failed")
                /\ Goto(u, AFTER_IMAGE)
                /\ UNCHANGED user_data
           ELSE /\ Store(u, Put(user_data[u], "last_image", r.image_bytes))
                /\ IF ~safe_send_image_by_bot(photo_ok, doc_ok)
                     THEN /\ reply' = Say(u, "edit_send_failed")
                          /\ Goto(u, AFTER_IMAGE)
                     ELSE /\ reply' = Say(u, "choose_action")
                          /\ Goto(u, AFTER_IMAGE)

regen_prompt_handler(u, text) ==
  /\ InState(u, REGEN_PROMPT)
  /\ LET prompt == strip(text)
         d0 == user_data[u]
     IN  IF ~Truthy(d0, "dimension")
           THEN /\ reply' = Say(u, "dimension_missing")
                /\ Goto(u, END)
                /\ UNCHANGED <<user_data, pending>>
           ELSE IF ~parse_dim_ok(d0["dimension"])
             THEN UNCHANGED <<user_data, reply, conv, pending>>
             ELSE /\ Store(u, Put(d0, "last_prompt", prompt))
                  /\ reply' = Say(u, "generating_new")
                  /\ Await(u, "regen", prompt, d0["dimension"])
                  /\ UNCHANGED conv
  /\ UNCHANGED served

regen_prompt_resume(u, resp, photo_ok, doc_ok) ==
  /\ Awaited(u, "regen")
  /\ Answer(resp)
  /\ pending' = {}
  /\ LET r == generate_image_sync(resp, served + 1)
     IN  IF Failed(r)
           THEN /\ reply' = Say(u, "regen_failed")
                /\ Goto(u, AWAIT_PROMPT)
                /\ UNCHANGED user_data
           ELSE /\ Store(u, Put(user_data[u], "last_image", r.image_bytes))
                /\ IF ~safe_send_image_by_bot(photo_ok, doc_ok)
                     THEN /\ reply' = Say(u, "regen_send_failed")
                          /\ Goto(u, AWAIT_PROMPT)
                     ELSE /\ reply' = Say(u, "choose_action")
                          /\ Goto(u, AFTER_IMAGE)

\* Variant: gallery[:5], the oldest five.
first_five(gallery) ==
  SubSeq(gallery, 1, IF Len(gallery) < GalleryShow THEN Len(gallery) ELSE GalleryShow)

\* gallery[-5:]
last_five(gallery) == last_n(gallery, GalleryShow)

\* app.add_handler(CommandHandler('gallery', cmd_gallery)): outside the
\* conversation handler, so in every conversation state.
cmd_gallery(u, batch_ok) ==
  /\ Idle
  /\ LET gallery == IF Has(user_data[u], "gallery") THEN user_data[u]["gallery"] ELSE <<>>
     IN  reply' = IF Len(gallery) = 0
                    THEN Say(u, "gallery_empty")
                    ELSE Show(u, IF batch_ok THEN "media_group" ELSE "one_by_one",
                              last_five(gallery))
  /\ UNCHANGED <<conv, user_data, pending, served>>

\* Variant: cmd_cancel returns no state, the conversation goes on.
cmd_cancel_stay(u) ==
  /\ Idle
  /\ conv[u] # END
  /\ reply' = Say(u, "cancelled")
  /\ UNCHANGED <<conv, user_data, pending, served>>

\* fallbacks=[CommandHandler('cancel', cmd_cancel)]: only inside a conversation.
cmd_cancel(u) ==
  /\ Idle
  /\ conv[u] # END
  /\ reply' = Say(u, "cancelled")
  /\ Goto(u, END)
  /\ UNCHANGED <<user_data, pending, served>>

TextStates == {ASK_NAME, ASK_PHONE, VERIFY_OTP, AWAIT_PROMPT, EDIT_PROMPT, REGEN_PROMPT}

\* A text message in a state with no MessageHandler: no handler runs.
unhandled_text(u, text) ==
  /\ Idle
  /\ conv[u] \notin TextStates
  /\ UNCHANGED vars

\* A button press that no CallbackQueryHandler of the state matches.
unhandled_callback(u, data) ==
  /\ Idle
  /\ ~(conv[u] = DIMENSION_CHOICE /\ startswith(data, <<"d", "i", "m", ":">>))
  /\ ~(conv[u] = AFTER_IMAGE /\ startswith(data, <<"a", "c", "t", ":">>))
  /\ UNCHANGED vars

\* /cancel outside a conversation: the fallback is not consulted.
unhandled_cancel(u) ==
  /\ Idle
  /\ conv[u] = END
  /\ UNCHANGED vars


\* ------------------------------------------------------------ environment

Dim512 == <<"5", "1", "2", "x", "5", "1", "2">>
DimData(tok) == <<"d", "i", "m", ":">> \o tok
ActData(tok) == <<"a", "c", "t", ":">> \o tok
SaveData == ActData(<<"s", "a", "v", "e">>)

AllActData ==
  { ActData(<<"e", "d", "i", "t">>), SaveData,
    ActData(<<"n", "o", "s", "a", "v", "e">>),
    ActData(<<"r", "e", "g", "e", "n">>), ActData(<<"z", "o", "o", "m">>) }

\* OTPs drawn in the model: the two ends of the range of random.randint.
OtpValues == {OtpLo, OtpHi}

\* What the users send in Spec: padded and blank texts, every allow-listed
\* dimension button and three forged ones (off the list, empty, not a size).
RichEnv ==
  [ names        |-> { <<" ", "A">> },
    phones       |-> { <<"5">> },
    otps         |-> OtpValues,
    entries      |-> {str(n) : n \in OtpValues} \cup { <<" ">> \o str(OtpLo) \o <<"\n">> },
    buttons      |-> {DimData(ALLOWED_DIMS[i]) : i \in 1..Len(ALLOWED_DIMS)}
                       \cup {DimData(Dim512), DimData(<<>>), DimData(<<"a", "x", "b">>)}
                       \cup AllActData,
    prompts      |-> { <<" ", "f">>, <<" ">> },
    instructions |-> { <<"b", " ">> },
    max_gallery  |-> MaxSpecGallery,
    max_prompt   |-> MaxPromptLen ]

\* What the user sends in SpecGallery: one value of each input, and saves
\* without limit, so that the gallery fills and overflows.
GalleryEnv ==
  [ names        |-> { <<"A">> },
    phones       |-> { <<"5">> },
    otps         |-> { OtpLo },
    entries      |-> { str(OtpLo) },
    buttons      |-> {DimData(ALLOWED_DIMS[1])} \cup AllActData,
    prompts      |-> { <<"f">> },
    instructions |-> { <<"b">> },
    max_gallery  |-> GalleryCap + 1,
    max_prompt   |-> 1 ]

GalleryLen(u) == IF Has(user_data[u], "gallery") THEN Len(user_data[u]["gallery"]) ELSE 0
PromptLen(u) == IF Has(user_data[u], "last_prompt") THEN Len(user_data[u]["last_prompt"]) ELSE 0

\* One update of user u, or the completion of u's generation call.
Step(u, env) ==
  \/ cmd_start(u)
  \/ cmd_cancel(u)
  \/ unhandled_cancel(u)
  \/ \E batch_ok \in BOOLEAN : cmd_gallery(u, batch_ok)
  \/ \E t \in env.names : ask_phone(u, t)
  \/ \E t \in env.phones, n \in env.otps : send_otp(u, t, n)
  \/ \E t \in env.entries : verify_otp_handler(u, t)
  \/ \E d \in env.buttons : dimension_chosen(u, d)
  \/ \E t \in env.prompts : receive_prompt_and_generate(u, t)
  \/ \E d \in env.buttons :
       /\ d = SaveData => GalleryLen(u) < env.max_gallery
       /\ after_image_action(u, d)
  \/ \E t \in env.instructions :
       /\ PromptLen(u) <= env.max_prompt
       /\ edit_prompt_handler(u, t)
  \/ \E t \in env.prompts : regen_prompt_handler(u, t)
  \/ \E t \in env.prompts : unhandled_text(u, t)
  \/ \E d \in env.buttons : unhandled_callback(u, d)
  \/ \E resp \in Responses, photo_ok, doc_ok \in BOOLEAN :
       receive_prompt_resume(u, resp, photo_ok, doc_ok)
  \/ \E resp \in Responses, photo_ok, doc_ok \in BOOLEAN :
       edit_prompt_resume(u, resp, photo_ok, doc_ok)
  \/ \E resp \in Responses, photo_ok, doc_ok \in BOOLEAN :
       regen_prompt_resume(u, resp, photo_ok, doc_ok)

Next == Step("u1", RichEnv)

Spec == Init /\ [][Next]_vars

NextGallery == Step("u1", GalleryEnv)

SpecGallery == Init /\ [][NextGallery]_vars


\* What each of the two users sends in SpecMulti: one value of each input,
\* one edit, and saves while the gallery is shorter than in Spec.
MultiEnv ==
  [ names        |-> { <<"A">> },
    phones       |-> { <<"5">> },
    otps         |-> { OtpLo },
    entries      |-> { str(OtpLo) },
    buttons      |-> {DimData(ALLOWED_DIMS[1]), ActData(<<"e","d","i","t">>),
                      SaveData, ActData(<<"r","e","g","e","n">>)},
    prompts      |-> { <<"f">> },
    instructions |-> { <<"b">> },
    max_gallery  |-> MaxSpecGallery,
    max_prompt   |-> 1 ]

NextMulti == \E u \in Users : Step(u, MultiEnv)

SpecMulti == Init /\ [][NextMulti]_vars

\* ----------------------------------------------------------------- claims

Texts == RichEnv.names \cup RichEnv.phones \cup RichEnv.entries
           \cup RichEnv.prompts \cup RichEnv.instructions

\* A dict entry as an option: <<v>> when the key is present, <<>> when not.
Field(d, k) == IF Has(d, k) THEN <<d[k]>> ELSE <<>>

\* p is t without its leading and trailing whitespace.
IsTrimOf(p, t) ==
  \E i \in 1..(Len(t) + 1), j \in 0..Len(t) :
    /\ p = SubSeq(t, i, j)
    /\ \A k \in 1..Len(t) : (k < i \/ k > j) => t[k] \in Whitespace
    /\ Len(p) > 0 => (p[1] \notin Whitespace /\ p[Len(p)] \notin Whitespace)

AllowedPairs ==
  << <<1024, 1024>>, <<1152, 896>>, <<1216, 832>>, <<1344, 768>>, <<1536, 640>>,
     <<640, 1536>>, <<768, 1344>>, <<832, 1216>>, <<896, 1152>> >>

\* The index of the allow-listed token stored as u's dimension, 0 when the
\* stored dimension is absent or not on the list.
StoredDim(d) ==
  IF \E i \in 1..Len(ALLOWED_DIMS) : Field(d, "dimension") = <<ALLOWED_DIMS[i]>>
    THEN CHOOSE i \in 1..Len(ALLOWED_DIMS) : Field(d, "dimension") = <<ALLOWED_DIMS[i]>>
    ELSE 0

\* C2: for each of the nine allow-listed tokens WxH, the selection dim:WxH
\* handled in DIMENSION_CHOICE stores a dimension whose width and height are
\* W and H and moves to AWAIT_PROMPT; the stored dimension then stays until
\* the next start, and every generation call passes exactly W and H.
C2_DimensionExact ==
  /\ [][\A u \in Users, i \in 1..Len(ALLOWED_DIMS) :
          (conv[u] = DIMENSION_CHOICE /\ dimension_chosen(u, DimData(ALLOWED_DIMS[i]))) =>
            /\ Has(user_data'[u], "dimension")
            /\ parse_dim_ok(user_data'[u]["dimension"])
            /\ parse_dim(user_data'[u]["dimension"]).width = AllowedPairs[i][1]
            /\ parse_dim(user_data'[u]["dimension"]).height = AllowedPairs[i][2]
            /\ conv'[u] = AWAIT_PROMPT]_vars
  /\ [][\A u \in Users :
          (StoredDim(user_data[u]) # 0 /\ ~cmd_start(u)) =>
            StoredDim(user_data'[u]) = StoredDim(user_data[u])]_vars
  /\ [](\A c \in pending :
          StoredDim(user_data[c.user]) # 0 =>
            /\ c.width = AllowedPairs[StoredDim(user_data[c.user])][1]
            /\ c.height = AllowedPairs[StoredDim(user_data[c.user])][2])

\* A generation call is outstanding for the non-square selection 1152x896.
C2_Witness ==
  \E c \in pending :
    /\ c.user = "u1"
    /\ StoredDim(user_data["u1"]) = 2
    /\ c.width = 1152
    /\ c.height = 896

\* C3: only allow-listed dimensions are accepted, so in every reachable state
\* the stored dimension is absent or one of the nine allow-listed pairs.
C3_OnlyAllowListed ==
  \A u \in Users :
    Has(user_data[u], "dimension") => StoredDim(user_data[u]) # 0


\* C4: in every reachable state each user's gallery holds at most 20 images.
C4_GalleryAtMost20 == \A u \in Users : GalleryLen(u) <= 20

\* The gallery is full and a save has just been confirmed.
C4_Witness ==
  /\ GalleryLen("u1") = 20
  /\ reply = Say("u1", "saved")
  /\ user_data["u1"]["gallery"][20] # user_data["u1"]["gallery"][1]

\* C5: save in AFTER_IMAGE with a held last_image appends it at the end of the
\* gallery and keeps the state AFTER_IMAGE; with 20 images already stored the
\* result is the 19 newest in their order followed by the new image.
C5_SaveFifo ==
  [][\A u \in Users :
       (/\ conv[u] = AFTER_IMAGE
        /\ Has(user_data[u], "last_image")
        /\ after_image_action(u, SaveData)) =>
         LET old == IF Has(user_data[u], "gallery") THEN user_data[u]["gallery"] ELSE <<>>
             img == user_data[u]["last_image"]
         IN  /\ Field(user_data'[u], "gallery") =
                  << IF Len(old) < 20 THEN Append(old, img) ELSE Append(Tail(old), img) >>
             /\ Field(user_data'[u], "last_image") = <<img>>
             /\ conv'[u] = AFTER_IMAGE]_vars

\* A full gallery whose oldest entries are image 1 and whose newest is image 2.
C5_Witness ==
  /\ conv["u1"] = AFTER_IMAGE
  /\ reply = Say("u1", "saved")
  /\ Field(user_data["u1"], "gallery") = << [i \in 1..20 |-> IF i < 20 THEN 1 ELSE 2] >>

\* The text t without leading and trailing whitespace.
TrimOf(t) ==
  CHOOSE p \in {SubSeq(t, i, j) : i \in 1..(Len(t) + 1), j \in 0..Len(t)} : IsTrimOf(p, t)

Composite(p, i) == p \o <<".", " ", "E", "d", "i", "t", ":", " ">> \o i

\* C6 as stated: a text i handled in EDIT_PROMPT with stored last_prompt p
\* sets last_prompt to p + ". Edit: " + i. (Stated here for a non-empty p and
\* an allow-listed dimension only: it fails even there.)
C6_AsStated ==
  [][\A u \in Users, i \in Texts :
       (/\ conv[u] = EDIT_PROMPT
        /\ edit_prompt_handler(u, i)
        /\ Len(user_data[u]["last_prompt"]) > 0
        /\ StoredDim(user_data[u]) # 0) =>
         Field(user_data'[u], "last_prompt") =
           << Composite(user_data[u]["last_prompt"], i) >>]_vars

\* C6 amended: a text i handled in EDIT_PROMPT with a non-empty stored
\* last_prompt p (the latest composite, if edits came before) sets last_prompt
\* to p + ". Edit: " + i with i trimmed of surrounding whitespace, leaves the
\* dimension unchanged, and every call it submits carries that composite and,
\* for an allow-listed dimension, which is always submitted, its width and
\* height; with an empty p nothing is composed or submitted and the state
\* becomes AWAIT_PROMPT.
C6_EditChains ==
  [][\A u \in Users, i \in Texts :
       (conv[u] = EDIT_PROMPT /\ edit_prompt_handler(u, i)) =>
         LET p == user_data[u]["last_prompt"]
             k == StoredDim(user_data[u])
         IN  IF Len(p) > 0
               THEN /\ Field(user_data'[u], "last_prompt") = << Composite(p, TrimOf(i)) >>
                    /\ Field(user_data'[u], "dimension") = Field(user_data[u], "dimension")
                    /\ \A c \in pending' : c.user = u /\ c.prompt = Composite(p, TrimOf(i))
                    /\ k # 0 => pending' = {[user |-> u, site |-> "edit",
                                             prompt |-> Composite(p, TrimOf(i)),
                                             width |-> AllowedPairs[k][1],
                                             height |-> AllowedPairs[k][2]]}
               ELSE /\ user_data' = user_data
                    /\ pending' = {}
                    /\ conv'[u] = AWAIT_PROMPT]_vars

\* Two edits were chained onto the prompt "f": the second onto the first composite.
C6_Witness ==
  \E c \in pending :
    /\ c.site = "edit"
    /\ c.prompt = Composite(Composite(<<"f">>, <<"b">>), <<"b">>)
    /\ Field(user_data["u1"], "last_prompt") = <<c.prompt>>

\* A failed generation at the site's resumption, for any delivery outcome.
FailsAt(u, site) ==
  /\ Awaited(u, site)
  /\ \E resp \in Responses \ {"ok"}, photo_ok, doc_ok \in BOOLEAN :
       CASE site = "prompt" -> receive_prompt_resume(u, resp, photo_ok, doc_ok)
         [] site = "edit" -> edit_prompt_resume(u, resp, photo_ok, doc_ok)
         [] site = "regen" -> regen_prompt_resume(u, resp, photo_ok, doc_ok)

\* C7 as stated: a generation failure at any of the three call sites leaves
\* last_image as it was, does not end the conversation and returns the session
\* to a state that accepts text input. (Stated here for an allow-listed
\* dimension only: it fails even there.)
C7_AsStated ==
  [][\A u \in Users, site \in {"prompt", "edit", "regen"} :
       (FailsAt(u, site) /\ StoredDim(user_data[u]) # 0) =>
         /\ Field(user_data'[u], "last_image") = Field(user_data[u], "last_image")
         /\ conv'[u] # END
         /\ conv'[u] \in TextStates]_vars

\* C7 amended: a generation failure at any of the three call sites leaves
\* last_image as it was and does not end the conversation; after the initial
\* prompt and after regenerate the session returns to AWAIT_PROMPT, which
\* accepts text, and after edit to AFTER_IMAGE, which accepts only buttons.
C7_FailureKeepsImage ==
  [][\A u \in Users, site \in {"prompt", "edit", "regen"} :
       FailsAt(u, site) =>
         /\ Field(user_data'[u], "last_image") = Field(user_data[u], "last_image")
         /\ conv'[u] # END
         /\ conv'[u] = IF site = "edit" THEN AFTER_IMAGE ELSE AWAIT_PROMPT
         /\ pending' = {}]_vars

\* A failed edit: the earlier image is still held and the state is AFTER_IMAGE.
C7_Witness ==
  /\ reply = Say("u1", "edit_failed")
  /\ conv["u1"] = AFTER_IMAGE
  /\ Has(user_data["u1"], "last_image")

\* The handler of a prompt in AWAIT_PROMPT or REGEN_PROMPT took text t and
\* suspended on its generation call.
Submits(u, t) ==
  /\ conv[u] \in {AWAIT_PROMPT, REGEN_PROMPT}
  /\ pending' # {}
  /\ receive_prompt_and_generate(u, t) \/ regen_prompt_handler(u, t)

\* The call of u's prompt returned image bytes and they were delivered.
Delivered(u) ==
  /\ Awaited(u, "prompt") \/ Awaited(u, "regen")
  /\ \E photo_ok, doc_ok \in BOOLEAN :
       /\ photo_ok \/ doc_ok
       /\ \/ receive_prompt_resume(u, "ok", photo_ok, doc_ok)
          \/ regen_prompt_resume(u, "ok", photo_ok, doc_ok)

\* What C8 says of a delivered generation, given the prompt the call carried.
C8_AfterDelivery(u) ==
  /\ conv'[u] = AFTER_IMAGE
  /\ Field(user_data'[u], "last_image") = <<served + 1>>
  /\ \A c \in pending : Field(user_data'[u], "last_prompt") = <<c.prompt>>
  /\ \A k \in {"dimension", "gallery", "name", "phone", "verified", "otp"} :
       Field(user_data'[u], k) = Field(user_data[u], k)

\* C8 as stated: when a prompt submitted in AWAIT_PROMPT or REGEN_PROMPT is
\* generated and delivered, the session ends in AFTER_IMAGE with last_image the
\* provider's bytes and last_prompt equal to the submitted text, the other
\* fields unchanged. (Stated here for an allow-listed dimension and a text that
\* is not blank only: it fails even there.)
C8_AsStated ==
  [][\A u \in Users :
       /\ \A t \in Texts :
            (/\ Submits(u, t)
             /\ StoredDim(user_data[u]) # 0
             /\ \E k \in 1..Len(t) : t[k] \notin Whitespace) =>
              /\ \A c \in pending' : c.prompt = t
              /\ Field(user_data'[u], "last_prompt") = <<t>>
       /\ Delivered(u) => C8_AfterDelivery(u)]_vars

\* C8 amended: as stated, with last_prompt (and the prompt sent to the
\* provider) equal to the submitted text trimmed of surrounding whitespace.
C8_SuccessStoresImage ==
  [][\A u \in Users :
       /\ \A t \in Texts :
            Submits(u, t) =>
              /\ \A c \in pending' : c.user = u /\ c.prompt = TrimOf(t)
              /\ Field(user_data'[u], "last_prompt") = <<TrimOf(t)>>
       /\ Delivered(u) => C8_AfterDelivery(u)]_vars

\* A second image was delivered for the prompt "f" after an edit had changed
\* last_prompt: the regenerated prompt replaced the composite.
C8_Witness ==
  /\ conv["u1"] = AFTER_IMAGE
  /\ reply = Say("u1", "choose_action")
  /\ Field(user_data["u1"], "last_image") = <<2>>
  /\ Field(user_data["u1"], "last_prompt") = << <<"f">> >>

\* C9: start is handled in every conversation state (also after cancel or an
\* aborted conversation) and resets the user's session to empty, with the
\* state ASK_NAME.
C9_StartResets ==
  /\ [](Idle => \A u \in Users : ENABLED cmd_start(u))
  /\ [][\A u \in Users :
          (Idle /\ cmd_start(u)) =>
            /\ DOMAIN user_data'[u] = {}
            /\ \A k \in {"name", "phone", "otp", "verified", "dimension",
                         "last_prompt", "last_image", "gallery"} :
                 Field(user_data'[u], k) = <<>>
            /\ conv'[u] = ASK_NAME]_vars

\* A start after a conversation that had produced an image: nothing is left.
C9_Witness ==
  /\ conv["u1"] = ASK_NAME
  /\ reply = Say("u1", "ask_name")
  /\ DOMAIN user_data["u1"] = {}
  /\ served > 0

\* C10: cancel is handled in every conversation state and ends the
\* conversation; from then on, until the user sends start, no step changes
\* the user's conversation state or session or starts a generation call.
C10_CancelEnds ==
  /\ [](\A u \in Users : (Idle /\ conv[u] # END) => ENABLED cmd_cancel(u))
  /\ [][\A u \in Users : cmd_cancel(u) => conv'[u] = END]_vars
  /\ [][\A u \in Users :
          (conv[u] = END /\ ~cmd_start(u)) =>
            /\ conv'[u] = END
            /\ user_data'[u] = user_data[u]
            /\ \A c \in pending' : c.user # u]_vars

\* The conversation was cancelled while the session held an image.
C10_Witness ==
  /\ conv["u1"] = END
  /\ reply = Say("u1", "cancelled")
  /\ Has(user_data["u1"], "last_image")

\* The images a session holds: its gallery and its last_image.
Held(d) ==
  (IF Has(d, "gallery") THEN {d["gallery"][i] : i \in 1..Len(d["gallery"])} ELSE {})
    \cup (IF Has(d, "last_image") THEN {d["last_image"]} ELSE {})

\* C11: sessions are isolated per user. No event of user a (start, cancel,
\* gallery, a text, a button, the completion of a's generation call) changes
\* the conversation state or any session field of another user b; no image is
\* held by two sessions, and the gallery command of a shows only images of
\* a's own gallery, none of which b holds.
C11_SessionsIsolated ==
  /\ [](\A a \in Users : \A b \in Users \ {a} :
          Held(user_data[a]) \cap Held(user_data[b]) = {})
  /\ [][\A a \in Users : \A b \in Users \ {a} :
          Step(a, MultiEnv) =>
            /\ conv'[b] = conv[b]
            /\ user_data'[b] = user_data[b]]_vars
  /\ [][\A a \in Users : \A b \in Users \ {a}, batch_ok \in BOOLEAN :
          cmd_gallery(a, batch_ok) =>
            \A i \in 1..Len(reply'.photos) :
              /\ Has(user_data[a], "gallery")
              /\ \E j \in 1..Len(user_data[a]["gallery"]) :
                   reply'.photos[i] = user_data[a]["gallery"][j]
              /\ reply'.photos[i] \notin Held(user_data[b])]_vars

\* Both users have saved an image and u1 is shown its own gallery.
C11_Witness ==
  /\ Has(user_data["u1"], "gallery")
  /\ Has(user_data["u2"], "gallery")
  /\ Len(user_data["u1"]["gallery"]) > 0
  /\ Len(user_data["u2"]["gallery"]) > 0
  /\ reply.to = "u1"
  /\ reply.photos = user_data["u1"]["gallery"]
  /\ reply.photos # user_data["u2"]["gallery"]

\* C12: while the handler of one user a is suspended waiting for its
\* generation call, the events of every other user b can still be handled:
\* b's start is handled, and so is b's gallery command, whatever a's call does.
C12_OthersNotStalled ==
  \A a \in Users : \A b \in Users \ {a} :
    (\E c \in pending : c.user = a) =>
      /\ ENABLED cmd_start(b)
      /\ ENABLED cmd_gallery(b, TRUE)

\* u's stored gallery, empty when the session has none.
GalleryOf(u) == IF Has(user_data[u], "gallery") THEN user_data[u]["gallery"] ELSE <<>>

\* C13: the gallery command is handled in every conversation state and
\* outside a conversation; with n images stored it shows exactly the last
\* min(5, n) of the invoking user's gallery in stored order (the 'empty'
\* notice when n = 0), as one batch or, when the batch fails, one at a time;
\* it leaves the conversation state and every session field unchanged.
C13_GalleryShowsLastFive ==
  /\ [](\A u \in Users, batch_ok \in BOOLEAN : Idle => ENABLED cmd_gallery(u, batch_ok))
  /\ [][\A u \in Users, batch_ok \in BOOLEAN :
          cmd_gallery(u, batch_ok) =>
            LET n == Len(GalleryOf(u))
                k == IF n < 5 THEN n ELSE 5
            IN  /\ reply'.to = u
                /\ Len(reply'.photos) = k
                /\ \A i \in 1..k : reply'.photos[i] = GalleryOf(u)[n - k + i]
                /\ reply'.msg = IF n = 0 THEN "gallery_empty"
                                ELSE IF batch_ok THEN "media_group" ELSE "one_by_one"
                /\ UNCHANGED <<conv, user_data, pending, served>>]_vars

\* More than five images are stored and the last five were shown one at a
\* time, the oldest stored image not among them.
C13_Witness ==
  /\ Len(GalleryOf("u1")) > 5
  /\ reply.to = "u1"
  /\ reply.msg = "one_by_one"
  /\ Len(reply.photos) = 5
  /\ reply.photos[1] # GalleryOf("u1")[1]
  /\ reply.photos[5] = GalleryOf("u1")[Len(GalleryOf("u1"))]

\* C14: in every reachable state, a user whose conversation state is
\* AWAIT_PROMPT, AFTER_IMAGE, EDIT_PROMPT or REGEN_PROMPT has verified true
\* and a dimension stored (not null); and every outstanding generation call
\* belongs to such a user, whose stored dimension is non-empty and gives the
\* width and height of the call.
C14_VerifiedAndDimension ==
  /\ \A u \in Users :
        conv[u] \in {AWAIT_PROMPT, AFTER_IMAGE, EDIT_PROMPT, REGEN_PROMPT} =>
          /\ Field(user_data[u], "verified") = <<TRUE>>
          /\ Has(user_data[u], "dimension")
          /\ Has(user_data[u], "otp")
  /\ \A c \in pending :
        /\ conv[c.user] \in {AWAIT_PROMPT, EDIT_PROMPT, REGEN_PROMPT}
        /\ Field(user_data[c.user], "verified") = <<TRUE>>
        /\ Has(user_data[c.user], "dimension")
        /\ Len(user_data[c.user]["dimension"]) > 0
        /\ \E i \in 1..Len(user_data[c.user]["dimension"]) :
             /\ user_data[c.user]["dimension"][i] = "x"
             /\ str(c.width) = SubSeq(user_data[c.user]["dimension"], 1, i - 1)
             /\ str(c.height) = SubSeq(user_data[c.user]["dimension"], i + 1,
                                       Len(user_data[c.user]["dimension"]))

\* A generation call of a verified user with a dimension is outstanding in
\* REGEN_PROMPT.
C14_Witness ==
  /\ conv["u1"] = REGEN_PROMPT
  /\ \E c \in pending : c.user = "u1"
  /\ Field(user_data["u1"], "verified") = <<TRUE>>
  /\ Has(user_data["u1"], "dimension")

\* u's session has no usable dimension: none stored, or the empty string.
NoDimension(u) == Field(user_data[u], "dimension") \in { <<>>, << <<>> >> }

\* C15: a text handled in AWAIT_PROMPT, EDIT_PROMPT or REGEN_PROMPT while the
\* session has no dimension makes no generation call, leaves last_image and
\* gallery unchanged and ends the conversation; an ended conversation is
\* re-entered only at ASK_NAME, by start.
C15_NoDimensionEnds ==
  /\ [][\A u \in Users, t \in Texts :
          (/\ conv[u] \in {AWAIT_PROMPT, EDIT_PROMPT, REGEN_PROMPT}
           /\ NoDimension(u)
           /\ \/ receive_prompt_and_generate(u, t)
              \/ edit_prompt_handler(u, t)
              \/ regen_prompt_handler(u, t)) =>
            /\ pending' = {}
            /\ served' = served
            /\ Field(user_data'[u], "last_image") = Field(user_data[u], "last_image")
            /\ Field(user_data'[u], "gallery") = Field(user_data[u], "gallery")
            /\ Field(user_data'[u], "dimension") = Field(user_data[u], "dimension")
            /\ conv'[u] = END]_vars
  /\ [][\A u \in Users :
          (conv[u] = END /\ conv'[u] # END) =>
            (conv'[u] = ASK_NAME /\ user_data'[u] = EmptyDict)]_vars

\* A prompt was handled in a session without a usable dimension: the
\* conversation has ended with the notice and no call is outstanding.
C15_Witness ==
  /\ conv["u1"] = END
  /\ reply = Say("u1", "dimension_not_set")
  /\ NoDimension("u1")
  /\ Has(user_data["u1"], "last_prompt")
  /\ pending = {}

\* The call of u at the site returned image bytes, and neither send_photo nor
\* send_document delivered them.
NotDelivered(u, site) ==
  /\ Awaited(u, site)
  /\ CASE site = "prompt" -> receive_prompt_resume(u, "ok", FALSE, FALSE)
       [] site = "edit" -> edit_prompt_resume(u, "ok", FALSE, FALSE)
       [] site = "regen" -> regen_prompt_resume(u, "ok", FALSE, FALSE)

SendFailedMsg(site) ==
  CASE site = "prompt" -> "send_failed"
    [] site = "edit" -> "edit_send_failed"
    [] site = "regen" -> "regen_send_failed"

\* C16 as stated: when an image is generated but cannot be delivered, at each
\* of the three call sites the failure is reported, the flow returns to a
\* state that collects a prompt as text, and no image is sent and no call is
\* made again. (Stated here for an allow-listed dimension only: it fails even
\* there.)
C16_AsStated ==
  [][\A u \in Users, site \in {"prompt", "edit", "regen"} :
       (NotDelivered(u, site) /\ StoredDim(user_data[u]) # 0) =>
         /\ reply' = Say(u, SendFailedMsg(site))
         /\ conv'[u] \in {AWAIT_PROMPT, EDIT_PROMPT, REGEN_PROMPT}
         /\ pending' = {}]_vars

\* C16 amended: when an image is generated but cannot be delivered, the
\* failure is reported with no image attached and no call is made again;
\* after the initial prompt and after regenerate the flow returns to
\* AWAIT_PROMPT, which collects a prompt, and after edit to AFTER_IMAGE, which
\* accepts only buttons. The undelivered image is held as last_image.
C16_DeliveryFailure ==
  /\ [][\A u \in Users, site \in {"prompt", "edit", "regen"} :
          NotDelivered(u, site) =>
            /\ reply' = Say(u, SendFailedMsg(site))
            /\ reply'.photos = <<>>
            /\ conv'[u] = IF site = "edit" THEN AFTER_IMAGE ELSE AWAIT_PROMPT
            /\ pending' = {}
            /\ served' = served + 1
            /\ Field(user_data'[u], "last_image") = <<served + 1>>]_vars
  /\ [](reply.msg \in {"send_failed", "edit_send_failed", "regen_send_failed"} =>
          pending = {})

\* An edited image could not be delivered: the failure was reported, the
\* state is AFTER_IMAGE and the undelivered image is held.
C16_Witness ==
  /\ reply = Say("u1", "edit_send_failed")
  /\ conv["u1"] = AFTER_IMAGE
  /\ Field(user_data["u1"], "last_image") = <<2>>
  /\ pending = {}

\* C18: last_image is held only until it is overwritten, discarded or saved:
\* a session whose last action was a successful save holds no last_image, and
\* no image occurs twice in a gallery.
C18_SaveReleasesImage ==
  \A u \in Users :
    /\ reply = Say(u, "saved") => ~Has(user_data[u], "last_image")
    /\ \A i, j \in 1..Len(GalleryOf(u)) :
         GalleryOf(u)[i] = GalleryOf(u)[j] => i = j

\* The conversation state whose handler makes the call of a site.
SiteState(site) ==
  CASE site = "prompt" -> AWAIT_PROMPT
    [] site = "edit" -> EDIT_PROMPT
    [] site = "regen" -> REGEN_PROMPT

\* C17: for any one user at most one handler is in flight. At most one
\* generation call is outstanding; while user u's call is outstanding no start,
\* cancel or gallery command of u is handled and u's session and state change
\* only by the return of that call, which finds the session as the suspended
\* handler left it (the state of the call site, last_prompt the prompt of the
\* call) and changes at most last_image.
C17_OneHandlerPerUser ==
  /\ [](\A c, d \in pending : c = d)
  /\ [](\A c \in pending :
          /\ conv[c.user] = SiteState(c.site)
          /\ Field(user_data[c.user], "last_prompt") = <<c.prompt>>)
  /\ [][\A u \in Users :
          (\E c \in pending : c.user = u) =>
            /\ ~cmd_start(u)
            /\ ~cmd_cancel(u)
            /\ \A batch_ok \in BOOLEAN : ~cmd_gallery(u, batch_ok)
            /\ \/ UNCHANGED <<conv, user_data, pending>>
               \/ /\ pending' = {}
                  /\ reply'.to = u
                  /\ \A k \in {"name", "phone", "otp", "verified", "dimension",
                               "last_prompt", "gallery"} :
                       Field(user_data'[u], k) = Field(user_data[u], k)]_vars

\* u1's handler is suspended in its generation call while u2 is in the
\* middle of its own conversation, an image delivered.
C17_Witness ==
  /\ \E c \in pending : c.user = "u1"
  /\ conv["u1"] = REGEN_PROMPT
  /\ conv["u2"] = AFTER_IMAGE
  /\ Has(user_data["u2"], "last_image")

GenFailedMsg(site) ==
  CASE site = "prompt" -> "generate_failed"
    [] site = "edit" -> "edit_failed"
    [] site = "regen" -> "regen_failed"

\* C19: each text handled in AWAIT_PROMPT, EDIT_PROMPT or REGEN_PROMPT makes
\* at most one provider request and the return of that request, whatever it is,
\* leaves none outstanding (no retry); the client returns success, with the
\* image bytes, only for the success response that carries the image, and for
\* a network error, a non-success status and a malformed or empty body the
\* one failure result without bytes, which the handler reports in one and the
\* same way with the session and the image count unchanged.
C19_SingleRequest ==
  /\ [](\A resp \in Responses :
          LET r == generate_image_sync(resp, served + 1)
          IN  /\ r.success <=> resp = "ok"
              /\ resp = "ok" => Field(r, "image_bytes") = <<served + 1>>
              /\ resp # "ok" => r = [success |-> FALSE])
  /\ [][\A u \in Users, t \in Texts :
          (/\ conv[u] \in {AWAIT_PROMPT, EDIT_PROMPT, REGEN_PROMPT}
           /\ \/ receive_prompt_and_generate(u, t)
              \/ edit_prompt_handler(u, t)
              \/ regen_prompt_handler(u, t)) =>
            /\ \A c, d \in pending' : c = d
            /\ served' = served]_vars
  /\ [][\A u \in Users, site \in {"prompt", "edit", "regen"} :
          Awaited(u, site) =>
            /\ pending' \in {pending, {}}
            /\ \A resp \in Responses \ {"ok"}, photo_ok, doc_ok \in BOOLEAN :
                 (CASE site = "prompt" -> receive_prompt_resume(u, resp, photo_ok, doc_ok)
                    [] site = "edit" -> edit_prompt_resume(u, resp, photo_ok, doc_ok)
                    [] site = "regen" -> regen_prompt_resume(u, resp, photo_ok, doc_ok)) =>
                   /\ pending' = {}
                   /\ reply' = Say(u, GenFailedMsg(site))
                   /\ user_data' = user_data
                   /\ served' = served]_vars

\* A regeneration failed: reported once, no call outstanding, the earlier
\* image still the only one produced.
C19_Witness ==
  /\ reply = Say("u1", "regen_failed")
  /\ conv["u1"] = AWAIT_PROMPT
  /\ pending = {}
  /\ served = 1
  /\ Field(user_data["u1"], "last_image") = <<1>>

OtherFields == {"name", "phone", "otp", "verified", "dimension", "last_prompt", "gallery"}

\* C20: the nosave action in AFTER_IMAGE discards the held last_image, leaves
\* the gallery and every other session field unchanged and keeps the state
\* AFTER_IMAGE; a save action that finds no held image reports it, leaves the
\* gallery and the whole session unchanged and keeps the state AFTER_IMAGE.
C20_NoSaveDiscards ==
  /\ [][\A u \in Users :
          (conv[u] = AFTER_IMAGE
             /\ after_image_action(u, ActData(<<"n", "o", "s", "a", "v", "e">>))) =>
            /\ Field(user_data'[u], "last_image") = <<>>
            /\ \A k \in OtherFields : Field(user_data'[u], k) = Field(user_data[u], k)
            /\ DOMAIN user_data'[u] = DOMAIN user_data[u] \ {"last_image"}
            /\ conv'[u] = AFTER_IMAGE
            /\ UNCHANGED <<pending, served>>]_vars
  /\ [][\A u \in Users :
          (conv[u] = AFTER_IMAGE /\ Field(user_data[u], "last_image") = <<>>
             /\ after_image_action(u, SaveData)) =>
            /\ reply' = Say(u, "no_image_to_save")
            /\ user_data' = user_data
            /\ conv'[u] = AFTER_IMAGE
            /\ UNCHANGED <<pending, served>>]_vars

\* An image was saved, then discarded by nosave, and a save found none: the
\* gallery still holds the one image.
C20_Witness ==
  /\ reply = Say("u1", "no_image_to_save")
  /\ conv["u1"] = AFTER_IMAGE
  /\ ~Has(user_data["u1"], "last_image")
  /\ GalleryOf("u1") = <<1>>

\* C21: in EDIT_PROMPT the composite prompt is written to last_prompt before
\* the generation call: while the call is outstanding last_prompt is already
\* the composite sent, longer than the prompt it replaced. When the generation
\* fails the whole session stays as it is: last_prompt the composite,
\* last_image the image held before; the state becomes AFTER_IMAGE; and the
\* next edit composes onto whatever last_prompt holds, the failed composite.
C21_FailedEditKeepsComposite ==
  /\ [](\A c \in pending :
          c.site = "edit" => Field(user_data[c.user], "last_prompt") = <<c.prompt>>)
  /\ [][\A u \in Users, i \in Texts :
          (conv[u] = EDIT_PROMPT /\ edit_prompt_handler(u, i) /\ pending' # {}) =>
            /\ Field(user_data'[u], "last_prompt") =
                 << Composite(user_data[u]["last_prompt"], TrimOf(i)) >>
            /\ Field(user_data'[u], "last_prompt") # Field(user_data[u], "last_prompt")
            /\ Field(user_data'[u], "last_image") = Field(user_data[u], "last_image")
            /\ \A c \in pending' : c.prompt = user_data'[u]["last_prompt"]]_vars
  /\ [][\A u \in Users :
          FailsAt(u, "edit") =>
            /\ \A c \in pending : Field(user_data'[u], "last_prompt") = <<c.prompt>>
            /\ Field(user_data'[u], "last_image") = Field(user_data[u], "last_image")
            /\ user_data' = user_data
            /\ served' = served
            /\ conv'[u] = AFTER_IMAGE]_vars

\* The first edit of the prompt "f" failed (one image was ever produced and it
\* is still held), and the second edit was composed onto the failed composite.
C21_Witness ==
  /\ served = 1
  /\ Field(user_data["u1"], "last_image") = <<1>>
  /\ \E c \in pending :
       /\ c.site = "edit"
       /\ c.prompt = Composite(Composite(<<"f">>, <<"b">>), <<"b">>)
       /\ Field(user_data["u1"], "last_prompt") = <<c.prompt>>

====
